---- MODULE Spec2Model ----
(***************************************************************************)
(* Model of open-personality-mcp: the confidence merge / drift detection   *)
(* core (confidence.ts), the file-system profile store (fs-store.ts) and   *)
(* the create / get_or_create / update tool handlers that compose them.    *)
(*                                                                         *)
(* Confidences are JavaScript numbers (IEEE-754 binary floating point).    *)
(* They are modelled as binary floating-point numbers with a MantBits-bit  *)
(* significand, written as integers in units of 2^-FracBits, and every     *)
(* arithmetic result is rounded to nearest, ties to even, as the hardware  *)
(* does.  The significand is narrower than a double's 53 bits; the         *)
(* rounding behaviour (1 - (1 - x) need not be x, sums saturate at 1.0)    *)
(* is the same.                                                            *)
(***************************************************************************)
EXTENDS Integers, Sequences, FiniteSets, TLC

\* ------------------------------------------------------------------------
\* Bounds of the model
\* ------------------------------------------------------------------------
MantBits == 3
FracBits == 6
MaxCalls == 2
MaxClock == 1
MaxSeqCalls == 3
MaxChanges == 3

\* ------------------------------------------------------------------------
\* Floating-point arithmetic
\* ------------------------------------------------------------------------
RECURSIVE Pow2(_)
Pow2(n) == IF n <= 0 THEN 1 ELSE 2 * Pow2(n - 1)

\* 1.0 in units of 2^-FracBits
One == Pow2(FracBits)

Abs(x) == IF x < 0 THEN -x ELSE x

\* Spacing (in units) of the floating-point numbers around num/den >= 0:
\* the least power of two q with num/den < q * 2^MantBits.
RECURSIVE Quantum(_, _, _)
Quantum(num, den, q) ==
  IF num < q * Pow2(MantBits) * den THEN q ELSE Quantum(num, den, 2 * q)

\* num/den >= 0 (in units) rounded to the nearest floating-point number,
\* ties to even.
RoundF(num, den) ==
  LET q == Quantum(num, den, 1)
      d == den * q
      k == num \div d
      r == num % d
  IN  IF 2 * r < d THEN k * q
      ELSE IF 2 * r > d THEN (k + 1) * q
      ELSE IF k % 2 = 0 THEN k * q ELSE (k + 1) * q

\* a - b and a * b as the floating-point unit computes them
FSub(a, b) == IF a >= b THEN RoundF(a - b, 1) ELSE -RoundF(b - a, 1)
FMul(a, b) ==
  IF (a < 0) = (b < 0) THEN RoundF(Abs(a) * Abs(b), One)
  ELSE -RoundF(Abs(a) * Abs(b), One)


\* ------------------------------------------------------------------------
\* Data (types.ts)
\* ------------------------------------------------------------------------
\* FacetValue = 'a' | 'b'
FacetValue == {"a", "b"}

\* facet keys of the catalog (facetKeySchema: facet_1 .. facet_12)
Traits == {"facet_1", "facet_2"}

\* A facet map (Record<string, FacetWithHistory>) is a function whose domain
\* is the set of keys present; HasFacet is the truthiness test on merged[key].
HasFacet(facets, key) == key \in DOMAIN facets

Min(a, b) == IF a < b THEN a ELSE b
Max(a, b) == IF a > b THEN a ELSE b

\* Math.max(0, Math.min(1, c))

ClampMutantNoFloor(c) == Min(One, c)

ClampMutantNoCeiling(c) == Max(0, c)

Clamp(c) == Max(0, Min(One, c))

\* validation.ts: validateConfidence, and the transform of confidenceSchema
validateConfidence(confidence) == Max(0, Min(One, confidence))
confidenceSchema(v) == Max(0, Min(One, v))

\* 1 - (1 - oldConf) * (1 - newConf)
Boost(oldConf, newConf) == FSub(One, FMul(FSub(One, oldConf), FSub(One, newConf)))

\* ------------------------------------------------------------------------
\* confidence.ts: detectDrift
\* ------------------------------------------------------------------------
\* the literal 0.2 as a floating-point number
DriftThreshold == RoundF(One, 5)


IsFlipMutantExemptConfirmed(c) ==
  /\ c.previous.value # c.current.value
  /\ c.previous.confidence > 0
  /\ c.reason # "user_confirmed"

IsFlip(c) == c.previous.value # c.current.value /\ c.previous.confidence > 0

IsSimilarFlipMutantInclusive(c) ==
  /\ IsFlip(c)
  /\ Abs(FSub(c.current.confidence, c.previous.confidence)) <= DriftThreshold

IsSimilarFlip(c) ==
  /\ IsFlip(c)
  /\ Abs(FSub(c.current.confidence, c.previous.confidence)) < DriftThreshold

\* Number.prototype.toFixed(2): the confidence in hundredths
ToFixed2(c) == (2 * 100 * c + One) \div (2 * One)

detectDriftMutantSimilarCount(changes) ==
  LET flips == SelectSeq(changes, IsSimilarFlip)
      perTrait == [i \in 1..Len(flips) |->
                     [facet |-> flips[i].facet,
                      message |-> <<"flipped", flips[i].previous.value,
                                    flips[i].current.value,
                                    ToFixed2(flips[i].previous.confidence),
                                    ToFixed2(flips[i].current.confidence)>>]]
      flippedCount == Len(flips)
  IN  IF flippedCount >= 3
      THEN Append(perTrait, [facet |-> "_global",
                             message |-> <<"changed", flippedCount>>])
      ELSE perTrait

detectDrift(changes) ==
  LET flips == SelectSeq(changes, IsSimilarFlip)
      perTrait == [i \in 1..Len(flips) |->
                     [facet |-> flips[i].facet,
                      message |-> <<"flipped", flips[i].previous.value,
                                    flips[i].current.value,
                                    ToFixed2(flips[i].previous.confidence),
                                    ToFixed2(flips[i].current.confidence)>>]]
      flippedCount == Len(SelectSeq(changes, IsFlip))
  IN  IF flippedCount >= 3
      THEN Append(perTrait, [facet |-> "_global",
                             message |-> <<"changed", flippedCount>>])
      ELSE perTrait

\* ------------------------------------------------------------------------
\* confidence.ts: mergeFacets
\* ------------------------------------------------------------------------
\* The decision for one incoming facet against an existing one:
\* (resultValue, resultConf, reason).
DecideMutantExistingFirst(existingFacet, incomingFacet, newConf) ==
  LET oldValue == existingFacet.value
      oldConf == existingFacet.confidence
  IN  IF oldConf = One
      THEN [value |-> oldValue, confidence |-> One,
            reason |-> "existing_user_confirmed"]
      ELSE IF newConf = One
      THEN [value |-> incomingFacet.value, confidence |-> One,
            reason |-> "user_confirmed"]
      ELSE IF incomingFacet.value = oldValue
      THEN [value |-> oldValue, confidence |-> Boost(oldConf, newConf),
            reason |-> "confidence_boost"]
      ELSE IF newConf > oldConf
      THEN [value |-> incomingFacet.value, confidence |-> newConf,
            reason |-> "higher_confidence_override"]
      ELSE [value |-> oldValue, confidence |-> oldConf,
            reason |-> "existing_retained"]

DecideMutantConfirmedCopy(existingFacet, incomingFacet, newConf) ==
  LET oldValue == existingFacet.value
      oldConf == existingFacet.confidence
  IN  IF newConf = One
      THEN [value |-> incomingFacet.value, confidence |-> One,
            reason |-> "user_confirmed"]
      ELSE IF oldConf = One
      THEN [value |-> incomingFacet.value, confidence |-> One,
            reason |-> "existing_user_confirmed"]
      ELSE IF incomingFacet.value = oldValue
      THEN [value |-> oldValue, confidence |-> Boost(oldConf, newConf),
            reason |-> "confidence_boost"]
      ELSE IF newConf > oldConf
      THEN [value |-> incomingFacet.value, confidence |-> newConf,
            reason |-> "higher_confidence_override"]
      ELSE [value |-> oldValue, confidence |-> oldConf,
            reason |-> "existing_retained"]

DecideMutantTieSwitches(existingFacet, incomingFacet, newConf) ==
  LET oldValue == existingFacet.value
      oldConf == existingFacet.confidence
  IN  IF newConf = One
      THEN [value |-> incomingFacet.value, confidence |-> One,
            reason |-> "user_confirmed"]
      ELSE IF oldConf = One
      THEN [value |-> oldValue, confidence |-> One,
            reason |-> "existing_user_confirmed"]
      ELSE IF incomingFacet.value = oldValue
      THEN [value |-> oldValue, confidence |-> Boost(oldConf, newConf),
            reason |-> "confidence_boost"]
      ELSE IF newConf >= oldConf
      THEN [value |-> incomingFacet.value, confidence |-> newConf,
            reason |-> "higher_confidence_override"]
      ELSE [value |-> oldValue, confidence |-> oldConf,
            reason |-> "existing_retained"]

Decide(existingFacet, incomingFacet, newConf) ==
  LET oldValue == existingFacet.value
      oldConf == existingFacet.confidence
  IN  IF newConf = One
      THEN [value |-> incomingFacet.value, confidence |-> One,
            reason |-> "user_confirmed"]
      ELSE IF oldConf = One
      THEN [value |-> oldValue, confidence |-> One,
            reason |-> "existing_user_confirmed"]
      ELSE IF incomingFacet.value = oldValue
      THEN [value |-> oldValue, confidence |-> Boost(oldConf, newConf),
            reason |-> "confidence_boost"]
      ELSE IF newConf > oldConf
      THEN [value |-> incomingFacet.value, confidence |-> newConf,
            reason |-> "higher_confidence_override"]
      ELSE [value |-> oldValue, confidence |-> oldConf,
            reason |-> "existing_retained"]

\* One iteration of the loop over Object.entries(incoming): acc is
\* [merged, changes, existing], e is [facet, value, confidence]; existing is
\* the caller's object, of which merged is a shallow copy.
MergeEntryMutantAlwaysRecord(acc, e, source, now) ==
  LET newConf == Clamp(e.confidence)
      d == IF HasFacet(acc.merged, e.facet)
           THEN Decide(acc.merged[e.facet], e, newConf)
           ELSE [value |-> e.value, confidence |-> newConf, reason |-> "new_facet"]
      old == IF HasFacet(acc.merged, e.facet)
             THEN acc.merged[e.facet]
             ELSE [value |-> e.value, confidence |-> 0, history |-> <<>>]
      historyEntry == [value |-> d.value, confidence |-> d.confidence,
                       source |-> source, at |-> now]
  IN  [merged |-> (e.facet :> [value |-> d.value, confidence |-> d.confidence,
                               history |-> Append(old.history, historyEntry)])
                  @@ acc.merged,
       changes |-> Append(acc.changes,
                     [facet |-> e.facet,
                      previous |-> [value |-> old.value, confidence |-> old.confidence],
                      current |-> [value |-> d.value, confidence |-> d.confidence],
                      reason |-> d.reason]),
       existing |-> acc.existing]

MergeEntryMutantResetHistory(acc, e, source, now) ==
  LET r == MergeEntryMutantAlwaysRecord(acc, e, source, now)
      m == r.merged[e.facet]
  IN  IF HasFacet(acc.merged, e.facet)
         /\ acc.merged[e.facet].value = m.value
         /\ acc.merged[e.facet].confidence = m.confidence
      THEN acc
      ELSE [r EXCEPT !.merged =
              (e.facet :> [m EXCEPT !.history = <<m.history[Len(m.history)]>>])
              @@ acc.merged]

MergeEntryMutantInPlace(acc, e, source, now) ==
  LET r == MergeEntryMutantAlwaysRecord(acc, e, source, now)
      m == r.merged[e.facet]
  IN  IF ~HasFacet(acc.merged, e.facet)
      THEN r
      ELSE IF /\ acc.merged[e.facet].value = m.value
              /\ acc.merged[e.facet].confidence = m.confidence
      THEN acc
      ELSE [r EXCEPT !.existing = (e.facet :> m) @@ acc.existing]


\* a loop body in which an earlier change of the same call raises the
\* confidence of the entries after it
MergeEntryMutantCrossTrait(acc, e, source, now) ==
  LET newConf == IF acc.changes = <<>> THEN Clamp(e.confidence) ELSE One
  IN  IF ~HasFacet(acc.merged, e.facet)
      THEN LET historyEntry == [value |-> e.value, confidence |-> newConf,
                                source |-> source, at |-> now]
           IN  [merged |-> (e.facet :> [value |-> e.value, confidence |-> newConf,
                                        history |-> <<historyEntry>>])
                           @@ acc.merged,
                changes |-> Append(acc.changes,
                              [facet |-> e.facet,
                               previous |-> [value |-> e.value, confidence |-> 0],
                               current |-> [value |-> e.value, confidence |-> newConf],
                               reason |-> "new_facet"]),
                existing |-> acc.existing]
      ELSE LET existingFacet == acc.merged[e.facet]
               oldValue == existingFacet.value
               oldConf == existingFacet.confidence
               d == Decide(existingFacet, e, newConf)
           IN  IF d.value # oldValue \/ d.confidence # oldConf
               THEN LET historyEntry == [value |-> d.value, confidence |-> d.confidence,
                                         source |-> source, at |-> now]
                    IN  [merged |-> (e.facet :>
                                       [value |-> d.value, confidence |-> d.confidence,
                                        history |-> Append(existingFacet.history,
                                                           historyEntry)])
                                    @@ acc.merged,
                         changes |-> Append(acc.changes,
                                       [facet |-> e.facet,
                                        previous |-> [value |-> oldValue,
                                                      confidence |-> oldConf],
                                        current |-> [value |-> d.value,
                                                     confidence |-> d.confidence],
                                        reason |-> d.reason]),
                         existing |-> acc.existing]
               ELSE acc


\* a loop body whose history entry records the pair before the change
MergeEntryMutantStaleHistory(acc, e, source, now) ==
  LET newConf == Clamp(e.confidence)
  IN  IF ~HasFacet(acc.merged, e.facet)
      THEN LET historyEntry == [value |-> e.value, confidence |-> newConf,
                                source |-> source, at |-> now]
           IN  [merged |-> (e.facet :> [value |-> e.value, confidence |-> newConf,
                                        history |-> <<historyEntry>>])
                           @@ acc.merged,
                changes |-> Append(acc.changes,
                              [facet |-> e.facet,
                               previous |-> [value |-> e.value, confidence |-> 0],
                               current |-> [value |-> e.value, confidence |-> newConf],
                               reason |-> "new_facet"]),
                existing |-> acc.existing]
      ELSE LET existingFacet == acc.merged[e.facet]
               oldValue == existingFacet.value
               oldConf == existingFacet.confidence
               d == Decide(existingFacet, e, newConf)
           IN  IF d.value # oldValue \/ d.confidence # oldConf
               THEN LET historyEntry == [value |-> oldValue, confidence |-> oldConf,
                                         source |-> source, at |-> now]
                    IN  [merged |-> (e.facet :>
                                       [value |-> d.value, confidence |-> d.confidence,
                                        history |-> Append(existingFacet.history,
                                                           historyEntry)])
                                    @@ acc.merged,
                         changes |-> Append(acc.changes,
                                       [facet |-> e.facet,
                                        previous |-> [value |-> oldValue,
                                                      confidence |-> oldConf],
                                        current |-> [value |-> d.value,
                                                     confidence |-> d.confidence],
                                        reason |-> d.reason]),
                         existing |-> acc.existing]
               ELSE acc

MergeEntry(acc, e, source, now) ==
  LET newConf == Clamp(e.confidence)
  IN  IF ~HasFacet(acc.merged, e.facet)
      THEN \* New facet: just add it
           LET historyEntry == [value |-> e.value, confidence |-> newConf,
                                source |-> source, at |-> now]
           IN  [merged |-> (e.facet :> [value |-> e.value, confidence |-> newConf,
                                        history |-> <<historyEntry>>])
                           @@ acc.merged,
                changes |-> Append(acc.changes,
                              [facet |-> e.facet,
                               previous |-> [value |-> e.value, confidence |-> 0],
                               current |-> [value |-> e.value, confidence |-> newConf],
                               reason |-> "new_facet"]),
                existing |-> acc.existing]
      ELSE LET existingFacet == acc.merged[e.facet]
               oldValue == existingFacet.value
               oldConf == existingFacet.confidence
               d == Decide(existingFacet, e, newConf)
           IN  \* Only record a change if something actually changed
               IF d.value # oldValue \/ d.confidence # oldConf
               THEN LET historyEntry == [value |-> d.value, confidence |-> d.confidence,
                                         source |-> source, at |-> now]
                    IN  [merged |-> (e.facet :>
                                       [value |-> d.value, confidence |-> d.confidence,
                                        history |-> Append(existingFacet.history,
                                                           historyEntry)])
                                    @@ acc.merged,
                         changes |-> Append(acc.changes,
                                       [facet |-> e.facet,
                                        previous |-> [value |-> oldValue,
                                                      confidence |-> oldConf],
                                        current |-> [value |-> d.value,
                                                     confidence |-> d.confidence],
                                        reason |-> d.reason]),
                         existing |-> acc.existing]
               ELSE acc

RECURSIVE MergeLoop(_, _, _, _)
MergeLoop(acc, incoming, source, now) ==
  IF incoming = <<>> THEN acc
  ELSE MergeLoop(MergeEntry(acc, Head(incoming), source, now),
                 Tail(incoming), source, now)

mergeFacetsMutantOnlyIncoming(existing, incoming, source, now) ==
  LET r == MergeLoop([merged |-> existing, changes |-> <<>>, existing |-> existing],
                     incoming, source, now)
      keys == {incoming[i].facet : i \in 1..Len(incoming)}
  IN  [merged |-> [t \in DOMAIN r.merged \cap keys |-> r.merged[t]],
       changes |-> r.changes,
       driftWarnings |-> detectDrift(r.changes)]

\* incoming is the sequence Object.entries(incoming) of [facet, value,
\* confidence] entries, with distinct keys.
mergeFacets(existing, incoming, source, now) ==
  LET r == MergeLoop([merged |-> existing, changes |-> <<>>, existing |-> existing],
                     incoming, source, now)
  IN  [merged |-> r.merged, changes |-> r.changes,
       driftWarnings |-> detectDrift(r.changes)]

\* the caller's existing object once mergeFacets has returned
existingAfterMerge(existing, incoming, source, now) ==
  MergeLoop([merged |-> existing, changes |-> <<>>, existing |-> existing],
            incoming, source, now).existing

\* ------------------------------------------------------------------------
\* Optional values: an argument that is not given, a file that does not exist
\* ------------------------------------------------------------------------
None == <<>>
Some(x) == <<x>>
Get(opt) == opt[1]

\* an optional string argument that is not given (undefined)
NoArg == "undefined"

\* ------------------------------------------------------------------------
\* templates.ts: the two rendered documents
\* ------------------------------------------------------------------------
\* the literal 0.5
HalfLiteral == RoundF(One, 2)

\* getFacetLabel / getFacetDescription: the catalog text of a facet value
getFacetLabel(facetIndex, value, locale) == <<"label", facetIndex, value, locale>>
getFacetDescription(facetIndex, value, locale) == <<"desc", facetIndex, value, locale>>

\* a display string: a prefix, the label (or the question mark) and a suffix
Display(prefix, text, suffix) == [prefix |-> prefix, text |-> text, suffix |-> suffix]

formatFacetDisplayMutantInclusiveHalf(facetIndex, facet, locale) ==
  LET label == getFacetLabel(facetIndex, facet.value, locale)
  IN  IF facet.confidence = 0 THEN Display("", <<"?">>, "")
      ELSE IF facet.confidence = One THEN Display("", label, " confirmed")
      ELSE IF facet.confidence <= HalfLiteral THEN Display("~", label, "")
      ELSE Display("", label, "")

formatFacetDisplay(facetIndex, facet, locale) ==
  LET label == getFacetLabel(facetIndex, facet.value, locale)
  IN  IF facet.confidence = 0 THEN Display("", <<"?">>, "")
      ELSE IF facet.confidence = One THEN Display("", label, " confirmed")
      ELSE IF facet.confidence < HalfLiteral THEN Display("~", label, "")
      ELSE Display("", label, "")

isKnown(facets, t) == HasFacet(facets, t) /\ facets[t].confidence > 0

generateFacetTable(facets, locale) ==
  [t \in Traits |-> IF HasFacet(facets, t)
                    THEN formatFacetDisplay(t, facets[t], locale)
                    ELSE Display("", <<"?">>, "")]

\* the descriptions of the known facets (core truths, boundaries,
\* personality section)
KnownDescriptions(facets, locale) ==
  [t \in {u \in Traits : isKnown(facets, u)} |->
     getFacetDescription(t, facets[t].value, locale)]

DemoField(demographics, f) ==
  IF f \in DOMAIN demographics THEN demographics[f] ELSE NoArg

generateSoulMd(facets, demographics, locale) ==
  [doc |-> "SOUL",
   name |-> IF "name" \in DOMAIN demographics THEN demographics["name"] ELSE "Unknown",
   truths |-> KnownDescriptions(facets, locale),
   locale |-> locale,
   table |-> generateFacetTable(facets, locale)]

generateIdentityMd(facets, demographics, locale) ==
  [doc |-> "IDENTITY",
   name |-> IF "name" \in DOMAIN demographics THEN demographics["name"] ELSE "Unknown",
   header |-> <<DemoField(demographics, "name"), DemoField(demographics, "vibe")>>,
   truths |-> KnownDescriptions(facets, locale),
   locale |-> locale,
   table |-> generateFacetTable(facets, locale)]

\* a document the caller supplies (soul_md / identity_md)
CustomDoc(text) ==
  [doc |-> text, name |-> NoArg, truths |-> <<>>, locale |-> NoArg, table |-> <<>>]

\* ------------------------------------------------------------------------
\* fs-store.ts: the profile directories and their three files
\* ------------------------------------------------------------------------
ProfileIds == {"id1", "id2"}
ExternalIds == {"ext1"}
Files == {"profile.json", "SOUL.md", "IDENTITY.md"}

\* A directory: whether it exists, and each file's content (None: no file).
\* profile.json holds the ProfileData record: JSON.stringify / JSON.parse
\* return the same fields and the same numbers, an undefined external_id
\* stays undefined.
NoDir == [dir |-> FALSE, files |-> [f \in Files |-> None]]

\* the directory profilesDir itself, and the directories of the disk
Root == "."
Dirs == ProfileIds \cup {Root}

EmptyDisk == [id \in Dirs |-> NoDir]

\* The identifiers a caller passes, with their characters.
Identifiers == ProfileIds \cup {".", "..", "../id1"}

Chars(id) ==
  CASE id = "id1" -> <<"i", "d", "1">>
    [] id = "id2" -> <<"i", "d", "2">>
    [] id = "." -> <<".">>
    [] id = ".." -> <<".", ".">>
    [] id = "../id1" -> <<".", ".", "/", "i", "d", "1">>

\* String.prototype.includes
includes(s, sub) ==
  \E i \in 1..(Len(s) - Len(sub) + 1) : SubSeq(s, i, i + Len(sub) - 1) = sub

\* path.join(profilesDir, profileId) for an identifier without separator: a
\* "." segment is dropped, any other name is a directory of profilesDir
join(profileId) == IF Chars(profileId) = <<".">> THEN Root ELSE profileId

\* profileDir: None when it throws Invalid profile ID
profileDir(profileId) ==
  IF \/ includes(Chars(profileId), <<".", ".">>)
     \/ includes(Chars(profileId), <<"/">>)
     \/ includes(Chars(profileId), <<"\\">>)
  THEN None
  ELSE Some(join(profileId))

\* ensureDir: mkdir -p
ensureDir(d, id) == [d EXCEPT ![id].dir = TRUE, ![Root].dir = TRUE]

\* rm -r of a directory
rm(d, dir) == IF dir = Root THEN EmptyDisk ELSE [d EXCEPT ![dir] = NoDir]

\* writeFile of one of the three files
writeFile(d, id, f, content) == [d EXCEPT ![id].files[f] = Some(content)]

\* load: null (None) unless all three files can be read
load(d, id) ==
  IF \A f \in Files : d[id].files[f] # None
  THEN Some([profile |-> Get(d[id].files["profile.json"]),
             soulMd |-> Get(d[id].files["SOUL.md"]),
             identityMd |-> Get(d[id].files["IDENTITY.md"])])
  ELSE None

\* loadByExternalId: the profiles a scan of the directory can return (the
\* first match in readdir order, which is any match)
MatchesExternalId(d, externalId) ==
  {id \in ProfileIds : /\ d[id].dir
                       /\ load(d, id) # None
                       /\ Get(load(d, id)).profile.external_id = externalId}

\* save, the optimistic lock: the stored version differs from the expected
VersionConflict(d, id, expectedVersion) ==
  LET raw == d[id].files["profile.json"]
  IN  /\ expectedVersion # None
      /\ raw # None
      /\ Get(raw).version # Get(expectedVersion)

\* ------------------------------------------------------------------------
\* State
\* ------------------------------------------------------------------------
VARIABLES
  clock,      \* the wall clock that new Date() reads
  existing,   \* mergeFacets: the existing argument of the latest call
  incoming,   \* mergeFacets: the incoming argument of the latest call
  source,     \* mergeFacets: the source argument of the latest call
  result,     \* mergeFacets: what the latest call returned
  disk,       \* fs-store: the profiles directory
  calls,      \* the tool calls received so far, each with its handler's state
  usedIds,    \* the ids randomUUID() has returned or that exist already
  driftChanges,  \* detectDrift: the changes argument of the latest call
  driftResult,   \* detectDrift: what the latest call returned
  renderFacets,  \* generateFacetTable: the facets argument of the latest call
  renderTable    \* generateFacetTable: what the latest call returned

mergeVars == <<existing, incoming, source, result>>
storeVars == <<disk, calls, usedIds>>
driftVars == <<driftChanges, driftResult>>
renderVars == <<renderFacets, renderTable>>
vars == <<clock, existing, incoming, source, result, disk, calls, usedIds,
          driftChanges, driftResult, renderFacets, renderTable>>

\* ------------------------------------------------------------------------
\* Inputs
\* ------------------------------------------------------------------------
\* a confidence with low-order bits set, so that 1 - c is not exact
LowConf == One \div 8 + One \div 32
HalfConf == One \div 2
HighConf == One - One \div 8

\* confidences a caller sends, two of them out of range
ConfInputs == {-(One \div 4), 0, LowConf, HalfConf, HighConf, One, One + One \div 2}

Sources == {"text_analysis", "chat_log"}

Observations == [facet : Traits, value : FacetValue, confidence : ConfInputs]

\* the observations that batches of two are made of
PairObservations == {o \in Observations : o.confidence \in {LowConf, One}}

\* batches of one observation, and of two on distinct facets in either order
Batches ==
  {<<>>} \cup {<<o>> : o \in Observations}
  \cup {<<o1, o2>> : o1 \in PairObservations, o2 \in PairObservations}

DistinctKeys(batch) ==
  \A i, j \in 1..Len(batch) : i # j => batch[i].facet # batch[j].facet

NoFacets == <<>>

\* ------------------------------------------------------------------------
\* MergeSpec: a caller that starts from an empty facet map and feeds every
\* result of mergeFacets back as the existing argument of the next call
\* ------------------------------------------------------------------------
MergeInit ==
  /\ clock = 0
  /\ existing = NoFacets
  /\ incoming = <<>>
  /\ source \in Sources
  /\ result = mergeFacets(existing, incoming, source, clock)
  /\ disk = EmptyDisk
  /\ calls = <<>>
  /\ usedIds = {}
  /\ driftChanges = <<>>
  /\ driftResult = None
  /\ renderFacets = <<>>
  /\ renderTable = None

MergeCall ==
  /\ clock < MaxCalls
  /\ \E batch \in Batches :
       /\ DistinctKeys(batch)
       /\ clock' = clock + 1
       /\ existing' = result.merged
       /\ incoming' = batch
       /\ source' = source
       /\ result' = mergeFacets(existing', incoming', source', clock')
       /\ UNCHANGED <<storeVars, driftVars, renderVars>>

MergeNext == MergeCall

MergeSpec == MergeInit /\ [][MergeNext]_vars

\* ------------------------------------------------------------------------
\* Properties of mergeFacets, stated on the latest call under MergeSpec
\* ------------------------------------------------------------------------
\* the entries of the latest call's incoming for facet t
EntriesFor(t) == {i \in 1..Len(incoming) : incoming[i].facet = t}

\* the ChangeRecords the latest call returned for facet t
ChangesFor(t) == SelectSeq(result.changes, LAMBDA c : c.facet = t)

\* the confidence an in-range or out-of-range input stands for
Effective(c) == IF c < 0 THEN 0 ELSE IF c > One THEN One ELSE c

SamePair(b1, b2) == b1.value = b2.value /\ b1.confidence = b2.confidence

\* C5: an incoming observation whose clamped confidence is exactly 1.0 wins
\* over every existing belief (also an already confirmed one): the merged
\* facet has the incoming value and confidence 1.0, and when that differs from
\* the prior pair the ChangeRecord's reason is user_confirmed.
C5_UserConfirmedWins ==
  \A t \in DOMAIN existing : \A i \in EntriesFor(t) :
    incoming[i].confidence >= One =>
      /\ result.merged[t].value = incoming[i].value
      /\ result.merged[t].confidence = One
      /\ ~SamePair(result.merged[t], existing[t]) =>
           /\ Len(ChangesFor(t)) = 1
           /\ ChangesFor(t)[1].reason = "user_confirmed"

C5_Witness ==
  \E t \in DOMAIN existing : \E i \in EntriesFor(t) :
    /\ existing[t].confidence = One
    /\ incoming[i].confidence > One
    /\ incoming[i].value # existing[t].value
    /\ result.merged[t].value = incoming[i].value
    /\ Len(ChangesFor(t)) = 1

\* C6: a facet whose stored confidence is 1.0 keeps its value, confidence and
\* history, and gets no ChangeRecord, in every call whose observation for it
\* has clamped confidence below 1.0, whether it agrees or conflicts.
C6_ConfirmedIsKept ==
  \A t \in DOMAIN existing : \A i \in EntriesFor(t) :
    (existing[t].confidence = One /\ incoming[i].confidence < One) =>
      /\ result.merged[t] = existing[t]
      /\ ChangesFor(t) = <<>>

C6_Witness ==
  \E t \in DOMAIN existing : \E i \in EntriesFor(t) :
    /\ existing[t].confidence = One
    /\ incoming[i].confidence < One
    /\ incoming[i].confidence > 0
    /\ incoming[i].value # existing[t].value
    /\ result.merged[t] = existing[t]

\* C7 (as claimed): when the incoming value equals the existing one and both
\* confidences are below 1.0, the value is kept and the merged confidence is
\* below neither the existing nor the incoming confidence.
C7_BoostNeverBelowInputs ==
  \A t \in DOMAIN existing : \A i \in EntriesFor(t) :
    (/\ incoming[i].value = existing[t].value
     /\ existing[t].confidence < One
     /\ incoming[i].confidence < One) =>
      /\ result.merged[t].value = existing[t].value
      /\ result.merged[t].confidence >= existing[t].confidence
      /\ result.merged[t].confidence >= Effective(incoming[i].confidence)

\* C8: on a conflicting observation with neither confidence 1.0 the incoming
\* pair is adopted, with reason higher_confidence_override, only when its
\* clamped confidence is strictly greater; otherwise (ties included) the
\* facet is unchanged and there is no ChangeRecord and no history entry.
C8_StrictlyHigherOverrides ==
  \A t \in DOMAIN existing : \A i \in EntriesFor(t) :
    (/\ incoming[i].value # existing[t].value
     /\ existing[t].confidence < One
     /\ incoming[i].confidence < One) =>
      IF Effective(incoming[i].confidence) > existing[t].confidence
      THEN /\ result.merged[t].value = incoming[i].value
           /\ result.merged[t].confidence = Effective(incoming[i].confidence)
           /\ Len(ChangesFor(t)) = 1
           /\ ChangesFor(t)[1].reason = "higher_confidence_override"
      ELSE /\ result.merged[t] = existing[t]
           /\ ChangesFor(t) = <<>>

C8_Witness ==
  \E t \in DOMAIN existing : \E i \in EntriesFor(t) :
    /\ incoming[i].value # existing[t].value
    /\ existing[t].confidence < One
    /\ existing[t].confidence > 0
    /\ incoming[i].confidence = existing[t].confidence
    /\ result.merged[t] = existing[t]
    /\ ChangesFor(t) = <<>>

\* C9: a ChangeRecord is emitted for a facet of incoming exactly when the
\* facet had no belief or its merged (value, confidence) pair differs from
\* the existing one; there is at most one record per facet, none for a facet
\* that is not in incoming, and no record carries the reason
\* existing_retained or existing_user_confirmed.
C9_ChangeRecordIffChanged ==
  /\ \A t \in Traits :
       /\ Len(ChangesFor(t)) <= 1
       /\ EntriesFor(t) = {} => ChangesFor(t) = <<>>
       /\ EntriesFor(t) # {} =>
            (ChangesFor(t) # <<>> <=>
               (t \notin DOMAIN existing
                \/ ~SamePair(result.merged[t], existing[t])))
  /\ \A k \in 1..Len(result.changes) :
       /\ result.changes[k].facet \in Traits
       /\ result.changes[k].reason
            \notin {"existing_retained", "existing_user_confirmed"}

C9_Witness ==
  \E t, u \in DOMAIN existing :
    /\ EntriesFor(t) # {} /\ EntriesFor(u) # {}
    /\ ChangesFor(t) = <<>>
    /\ Len(ChangesFor(u)) = 1
    /\ ~SamePair(result.merged[u], existing[u])

\* C10: history is append-only: the history a facet had before the call is a
\* prefix of its history after it; when the call emits a ChangeRecord for the
\* facet exactly one entry (resultValue, resultConf, source) is appended, and
\* otherwise the history is unchanged.
HistoryBefore(t) == IF t \in DOMAIN existing THEN existing[t].history ELSE <<>>

C10_HistoryAppendOnly ==
  /\ DOMAIN existing \subseteq DOMAIN result.merged
  /\ \A t \in DOMAIN result.merged :
       LET before == HistoryBefore(t)
           after == result.merged[t].history
       IN  IF ChangesFor(t) # <<>>
           THEN /\ Len(after) = Len(before) + 1
                /\ SubSeq(after, 1, Len(before)) = before
                /\ after[Len(after)].value = result.merged[t].value
                /\ after[Len(after)].confidence = result.merged[t].confidence
                /\ after[Len(after)].source = source
           ELSE after = before

C10_Witness ==
  \E t \in DOMAIN existing :
    /\ Len(existing[t].history) >= 1
    /\ Len(ChangesFor(t)) = 1
    /\ Len(result.merged[t].history) = Len(existing[t].history) + 1
    /\ result.merged[t].history[1] = existing[t].history[1]

\* C11 (as claimed): merging an observation with confidence strictly between
\* 0 and 1.0 into a facet that has the same value and a confidence below 1.0
\* stores a strictly greater confidence that is still strictly below 1.0.
C11_ReinforcementStaysBelowOne ==
  \A t \in DOMAIN existing : \A i \in EntriesFor(t) :
    (/\ incoming[i].value = existing[t].value
     /\ existing[t].confidence < One
     /\ incoming[i].confidence > 0
     /\ incoming[i].confidence < One) =>
      /\ result.merged[t].confidence > existing[t].confidence
      /\ result.merged[t].confidence < One

\* the latest call's incoming with every confidence replaced by the value
\* it stands for
EffectiveIncoming ==
  [i \in 1..Len(incoming) |->
     [incoming[i] EXCEPT !.confidence = Effective(incoming[i].confidence)]]

\* C12: the confidence mergeFacets decides with and stores for an incoming
\* confidence c is max(0, min(1, c)): the call returns what it returns for
\* the clamped observations, a new facet stores the clamped confidence, and
\* validateConfidence and the confidence schema give the same number.
C12_EffectiveConfidenceIsClamp ==
  /\ result = mergeFacets(existing, EffectiveIncoming, source, clock)
  /\ \A i \in 1..Len(incoming) :
       /\ validateConfidence(incoming[i].confidence) = Effective(incoming[i].confidence)
       /\ confidenceSchema(incoming[i].confidence) = Effective(incoming[i].confidence)
       /\ incoming[i].facet \notin DOMAIN existing =>
            result.merged[incoming[i].facet].confidence
              = Effective(incoming[i].confidence)
  /\ \A t \in DOMAIN result.merged :
       result.merged[t].confidence \in 0..One

C12_Witness ==
  \E t \in DOMAIN existing : \E i \in EntriesFor(t) :
    /\ incoming[i].confidence > One
    /\ existing[t].confidence < One
    /\ result.merged[t].confidence = One
    /\ Len(ChangesFor(t)) = 1
    /\ ChangesFor(t)[1].reason = "user_confirmed"

\* C16: a facet of existing that is absent from incoming is in merged with
\* the same value, confidence and history and has no ChangeRecord; the keys
\* of merged are the keys of existing together with the keys of incoming.
C16_AbsentFacetsPassThrough ==
  /\ \A t \in DOMAIN existing :
       EntriesFor(t) = {} =>
         /\ t \in DOMAIN result.merged
         /\ result.merged[t] = existing[t]
         /\ ChangesFor(t) = <<>>
  /\ DOMAIN result.merged
       = DOMAIN existing \cup {incoming[i].facet : i \in 1..Len(incoming)}

C16_Witness ==
  \E t \in DOMAIN existing :
    /\ EntriesFor(t) = {}
    /\ result.changes # <<>>
    /\ DOMAIN result.merged # DOMAIN existing
    /\ Len(existing[t].history) >= 1
    /\ result.merged[t] = existing[t]

\* C17: mergeFacets does not mutate its existing argument: after the call
\* the caller's object has the same keys and, for every key, the same value,
\* confidence and history, also for the facets the call changed in merged.
C17_ExistingNotMutated ==
  LET after == existingAfterMerge(existing, incoming, source, clock)
  IN  /\ DOMAIN after = DOMAIN existing
      /\ \A t \in DOMAIN existing :
           /\ after[t].value = existing[t].value
           /\ after[t].confidence = existing[t].confidence
           /\ after[t].history = existing[t].history

C17_Witness ==
  \E t \in DOMAIN existing :
    /\ Len(ChangesFor(t)) = 1
    /\ result.merged[t].value # existing[t].value
    /\ Len(result.merged[t].history) = Len(existing[t].history) + 1
    /\ existingAfterMerge(existing, incoming, source, clock)[t] = existing[t]


\* what the claim compares: value, confidence and history length per facet
Summary(facets) ==
  [t \in DOMAIN facets |->
     [value |-> facets[t].value, confidence |-> facets[t].confidence,
      n |-> Len(facets[t].history)]]

SetOf(seq) == {seq[i] : i \in 1..Len(seq)}

\* merging <<o1>> and then <<o2>>: the final facets and all ChangeRecords
InTwoCalls(o1, o2) ==
  LET first == mergeFacets(existing, <<o1>>, source, clock)
      second == mergeFacets(first.merged, <<o2>>, source, clock)
  IN  [merged |-> second.merged,
       changes |-> SetOf(first.changes) \cup SetOf(second.changes)]

\* C21: for observations o1, o2 on two distinct facets, one mergeFacets call
\* with the batch <<o1, o2>> gives every facet the same value, confidence and
\* history length, and the same set of ChangeRecords, as the call with <<o1>>
\* followed by the call with <<o2>>, and as the two calls in the other order.
C21_NoCrossTraitInteraction ==
  (Len(incoming) = 2 /\ DistinctKeys(incoming)) =>
    \A order \in {<<1, 2>>, <<2, 1>>} :
      LET two == InTwoCalls(incoming[order[1]], incoming[order[2]])
      IN  /\ Summary(two.merged) = Summary(result.merged)
          /\ two.changes = SetOf(result.changes)

\* a batch of two whose observations both change a facet that exists
C21_Witness ==
  /\ Len(incoming) = 2
  /\ DistinctKeys(incoming)
  /\ \A i \in 1..2 : HasFacet(existing, incoming[i].facet)
  /\ Len(result.changes) = 2
  /\ \E i \in 1..2 : result.changes[i].reason = "confidence_boost"


InUnitInterval(c) == 0 <= c /\ c <= One

\* C22: whatever confidences the calls were given, also out of range, every
\* facet that mergeFacets returns has a confidence in [0,1] and so has every
\* entry of its history.
C22_ConfidenceInUnitInterval ==
  \A t \in DOMAIN result.merged :
    /\ InUnitInterval(result.merged[t].confidence)
    /\ \A n \in 1..Len(result.merged[t].history) :
         InUnitInterval(result.merged[t].history[n].confidence)

\* a call with a confidence above 1 after a call with a confidence below 0
C22_Witness ==
  /\ Len(incoming) = 1
  /\ incoming[1].confidence > One
  /\ result.merged[incoming[1].facet].confidence = One
  /\ \E t \in DOMAIN existing :
       /\ t # incoming[1].facet
       /\ existing[t].confidence = 0
       /\ Len(existing[t].history) = 1


\* C27 (as claimed): for every facet with an existing belief, in every
\* decision branch and also when the value flips, the merged confidence is
\* greater than or equal to the existing confidence.
C27_ConfidenceNeverDecreases ==
  \A t \in DOMAIN existing :
    result.merged[t].confidence >= existing[t].confidence

\* ------------------------------------------------------------------------
\* DriftSpec: detectDrift called on lists of ChangeRecords, and through
\* mergeFacets on facet maps of up to MaxChanges facets
\* ------------------------------------------------------------------------
FacetKeys ==
  <<"facet_1", "facet_2", "facet_3", "facet_4", "facet_5", "facet_6",
    "facet_7", "facet_8", "facet_9", "facet_10", "facet_11", "facet_12">>

\* (previous, current) confidences: a fresh facet, a small rise, a rise of
\* exactly the threshold, a large rise, a small fall, a rise above the
\* threshold
DriftConfPairs ==
  { <<0, HalfConf>>,
    <<HalfConf, HalfConf + One \div 8>>,
    <<DriftThreshold, 2 * DriftThreshold>>,
    <<One \div 8, One>>,
    <<HalfConf + One \div 8, HalfConf>>,
    <<One \div 4, HalfConf>> }

DriftValuePairs == { <<"a", "b">>, <<"a", "a">> }

ChangeAt(k, vp, cp) ==
  [facet |-> FacetKeys[k],
   previous |-> [value |-> vp[1], confidence |-> cp[1]],
   current |-> [value |-> vp[2], confidence |-> cp[2]],
   reason |-> IF cp[1] = 0 THEN "new_facet"
              ELSE IF cp[2] = One THEN "user_confirmed"
              ELSE IF vp[1] = vp[2] THEN "confidence_boost"
              ELSE "higher_confidence_override"]

\* the lists of ChangeRecords detectDrift is called on
DriftInputs ==
  UNION { { [k \in 1..n |-> ChangeAt(k, vps[k], cps[k])] :
              vps \in [1..n -> DriftValuePairs], cps \in [1..n -> DriftConfPairs] } :
          n \in 0..MaxChanges }

\* a stored facet
StoredFacet(value, confidence) ==
  [value |-> value, confidence |-> confidence,
   history |-> <<[value |-> value, confidence |-> confidence,
                  source |-> "initial_creation", at |-> 0]>>]

\* the (existing, incoming) arguments mergeFacets is called on: up to
\* MaxChanges stored facets with value a, each with an observation
DriftMergeInputs ==
  UNION { { [existing |-> [t \in {FacetKeys[k] : k \in 1..n} |->
                             StoredFacet("a", olds[CHOOSE k \in 1..n : FacetKeys[k] = t])],
             incoming |-> [k \in 1..n |-> [facet |-> FacetKeys[k],
                                           value |-> news[k][1],
                                           confidence |-> news[k][2]]]] :
              olds \in [1..n -> {LowConf, HighConf, One}],
              news \in [1..n -> FacetValue \X {HalfConf, One}] } :
          n \in 1..MaxChanges }

\* a caller about to call detectDrift on a list of ChangeRecords, or
\* mergeFacets on stored facets
DriftInit ==
  /\ clock = 0
  /\ source = "text_analysis"
  /\ \/ /\ driftChanges \in DriftInputs
        /\ existing = NoFacets
        /\ incoming = <<>>
     \/ /\ driftChanges = <<>>
        /\ \E arg \in DriftMergeInputs : existing = arg.existing /\ incoming = arg.incoming
  /\ result = mergeFacets(NoFacets, <<>>, source, clock)
  /\ driftResult = None
  /\ disk = EmptyDisk
  /\ calls = <<>>
  /\ usedIds = {}
  /\ renderFacets = <<>>
  /\ renderTable = None

DetectCall ==
  /\ driftResult = None
  /\ existing = NoFacets
  /\ driftResult' = Some(detectDrift(driftChanges))
  /\ UNCHANGED <<clock, mergeVars, storeVars, driftChanges, renderVars>>

MergeDriftCall ==
  /\ driftResult = None
  /\ existing # NoFacets
  /\ result' = mergeFacets(existing, incoming, source, clock)
  /\ driftChanges' = result'.changes
  /\ driftResult' = Some(result'.driftWarnings)
  /\ UNCHANGED <<clock, existing, incoming, source, storeVars, renderVars>>

DriftNext == DetectCall \/ MergeDriftCall

DriftSpec == DriftInit /\ [][DriftNext]_vars

\* the warnings of the latest detectDrift call keyed to facet t
WarningsFor(t) == SelectSeq(Get(driftResult), LAMBDA w : w.facet = t)

\* a ChangeRecord whose value changed from a real prior belief
QualifyingFlip(c) ==
  c.previous.value # c.current.value /\ c.previous.confidence > 0

FlipCount == Cardinality({k \in 1..Len(driftChanges) : QualifyingFlip(driftChanges[k])})

\* C15: detectDrift emits exactly one warning keyed _global when at least 3
\* ChangeRecords are flips from a previous confidence above 0, whatever the
\* confidence difference, and none otherwise; it states the count and comes
\* after the per-facet warnings; mergeFacets returns as driftWarnings what
\* detectDrift gives for the changes it returns.
C15_GlobalWarning ==
  /\ driftResult # None =>
       /\ Len(WarningsFor("_global")) = IF FlipCount >= 3 THEN 1 ELSE 0
       /\ FlipCount >= 3 =>
            LET last == Get(driftResult)[Len(Get(driftResult))]
            IN  /\ last.facet = "_global"
                /\ last.message = <<"changed", FlipCount>>
  /\ result.driftWarnings = detectDrift(result.changes)

C15_Witness ==
  /\ driftResult # None
  /\ FlipCount = 3
  /\ Len(Get(driftResult)) = 1
  /\ Get(driftResult)[1].facet = "_global"
  /\ driftChanges = result.changes
  /\ Get(driftResult) = result.driftWarnings


\* the entries of incoming with clamped confidence 1.0 whose value differs
\* from an existing belief held with a confidence above 0.8
ConfirmedFlips ==
  {i \in 1..Len(incoming) :
     /\ Clamp(incoming[i].confidence) = One
     /\ HasFacet(existing, incoming[i].facet)
     /\ incoming[i].value # existing[incoming[i].facet].value
     /\ 5 * existing[incoming[i].facet].confidence > 4 * One}

\* C29: when mergeFacets applies an observation with clamped confidence 1.0
\* whose value differs from an existing belief with a confidence above 0.8
\* (1.0 included), the change has reason user_confirmed, driftWarnings holds
\* a warning for that facet, and the change is one of the flips that are
\* counted for the _global warning.
C29_ConfirmedFlipsAreDrift ==
  (driftResult # None /\ existing # NoFacets) =>
    /\ \A i \in ConfirmedFlips :
         LET t == incoming[i].facet
         IN  /\ \E k \in 1..Len(result.changes) :
                  /\ result.changes[k].facet = t
                  /\ result.changes[k].reason = "user_confirmed"
                  /\ QualifyingFlip(result.changes[k])
             /\ Len(SelectSeq(result.driftWarnings, LAMBDA w : w.facet = t)) = 1
    /\ (ConfirmedFlips # {} /\ FlipCount >= 3) =>
         \E n \in 1..Len(result.driftWarnings) :
           /\ result.driftWarnings[n].facet = "_global"
           /\ result.driftWarnings[n].message = <<"changed", FlipCount>>

\* three confirmed flips, of a belief held with 1.0 and of one held with less
C29_Witness ==
  /\ driftResult # None
  /\ Cardinality(ConfirmedFlips) = 3
  /\ \E i, j \in ConfirmedFlips :
       /\ existing[incoming[i].facet].confidence = One
       /\ existing[incoming[j].facet].confidence < One
  /\ Len(result.driftWarnings) = 4

\* ------------------------------------------------------------------------
\* RenderSpec: generateFacetTable called on facet maps with every confidence
\* a number can have in [0, 1]
\* ------------------------------------------------------------------------
\* the floating-point numbers in [0, 1]
Confidences == {c \in 0..One : RoundF(c, 1) = c}

\* facet maps over subsets of Traits
RenderInputs ==
  UNION { [ks -> [value : FacetValue, confidence : Confidences,
                  history : {<<>>}]] : ks \in SUBSET Traits }

RenderInit ==
  /\ clock = 0
  /\ existing = NoFacets
  /\ incoming = <<>>
  /\ source = "text_analysis"
  /\ result = mergeFacets(existing, incoming, source, clock)
  /\ disk = EmptyDisk
  /\ calls = <<>>
  /\ usedIds = {}
  /\ driftChanges = <<>>
  /\ driftResult = None
  /\ renderFacets \in RenderInputs
  /\ renderTable = None

RenderCall ==
  /\ renderTable = None
  /\ \E locale \in {"en", "ja"} :
       renderTable' = Some([locale |-> locale,
                            table |-> generateFacetTable(renderFacets, locale)])
  /\ UNCHANGED <<clock, mergeVars, storeVars, driftVars, renderFacets>>

RenderNext == RenderCall

RenderSpec == RenderInit /\ [][RenderNext]_vars

\* C18: the facet table shows every facet in exactly one tier: "?" without a
\* belief or with confidence exactly 0, "~Label" strictly between 0 and 0.5,
\* the plain label from 0.5 up to but excluding 1.0, and the confirmed label
\* at exactly 1.0.
C18_DisplayTiers ==
  renderTable # None =>
    \A t \in Traits :
      LET cell == Get(renderTable).table[t]
          locale == Get(renderTable).locale
      IN  IF t \notin DOMAIN renderFacets
          THEN cell = Display("", <<"?">>, "")
          ELSE LET c == renderFacets[t].confidence
                   label == getFacetLabel(t, renderFacets[t].value, locale)
               IN  /\ (c = 0) <=> (cell = Display("", <<"?">>, ""))
                   /\ (0 < c /\ 2 * c < One) <=> (cell = Display("~", label, ""))
                   /\ (One <= 2 * c /\ c < One) <=> (cell = Display("", label, ""))
                   /\ (c = One) <=> (cell = Display("", label, " confirmed"))

C18_Witness ==
  /\ renderTable # None
  /\ \E t, u \in DOMAIN renderFacets :
       /\ 2 * renderFacets[t].confidence = One
       /\ Get(renderTable).table[t]
            = Display("", getFacetLabel(t, renderFacets[t].value,
                                        Get(renderTable).locale), "")
       /\ renderFacets[u].confidence = One
       /\ Get(renderTable).table[u].suffix = " confirmed"

\* ------------------------------------------------------------------------
\* The tool handlers (create-profile.ts, get-or-create-profile.ts,
\* update-profile.ts).  A handler runs from one await to the next without
\* interruption; each step below is one file-system operation together with
\* the synchronous code that follows it.
\* ------------------------------------------------------------------------
Languages == {"en", "ja"}

Args(profileId, externalId, name, facets, demographics, soulMd, identityMd, language) ==
  [profile_id |-> profileId, external_id |-> externalId, name |-> name,
   facets |-> facets, demographics |-> demographics,
   soul_md |-> soulMd, identity_md |-> identityMd, language |-> language]

Obs(t, v, c) == [facet |-> t, value |-> v, confidence |-> c]

\* what a handler returns: an error result or a result with a body
ErrorResult(message, code) ==
  [isError |-> TRUE, error |-> message, code |-> code, body |-> None]
\* an error thrown out of the handler
ThrownFault(message) ==
  [isError |-> TRUE, error |-> message, code |-> "thrown", body |-> None]
OkResult(body) ==
  [isError |-> FALSE, error |-> NoArg, code |-> NoArg, body |-> Some(body)]

NewCall(tool, variant, args) ==
  [tool |-> tool, variant |-> variant, args |-> args,
   pc |-> "start", profile |-> None, loadedVersion |-> None,
   expectedVersion |-> None, now |-> 0, changes |-> <<>>, driftWarnings |-> <<>>,
   soulMd |-> None, identityMd |-> None, pending |-> {}, wrote |-> {},
   dir |-> None, response |-> None]

Finish(c, response) == [c EXCEPT !.pc = "done", !.response = Some(response)]

\* create_profile: the facets built from args.facets
RECURSIVE BuildFacets(_, _, _)
BuildFacets(acc, entries, now) ==
  IF entries = <<>> THEN acc
  ELSE LET val == Head(entries)
           conf == Clamp(val.confidence)
       IN  BuildFacets(
             (val.facet :> [value |-> val.value, confidence |-> conf,
                            history |-> <<[value |-> val.value, confidence |-> conf,
                                           source |-> "initial_creation",
                                           at |-> now]>>])
             @@ acc,
             Tail(entries), now)

\* create_profile: the ProfileData it saves
CreatedProfile(args, profileId, now) ==
  [id |-> profileId,
   external_id |-> args.external_id,
   name |-> args.name,
   created_at |-> now,
   updated_at |-> now,
   version |-> 1,
   language |-> IF args.language = NoArg THEN "en" ELSE args.language,
   facets |-> IF args.facets # None THEN BuildFacets(NoFacets, Get(args.facets), now)
              ELSE NoFacets,
   demographics |-> IF args.demographics # None
                    THEN Get(args.demographics) @@ [name |-> args.name]
                    ELSE [name |-> args.name]]

\* get_or_create_profile: the ProfileData it saves when nothing is found
GetOrCreatedProfile(args, profileId, now) ==
  LET profileName == IF args.name = NoArg THEN args.external_id ELSE args.name
  IN  [id |-> profileId,
       external_id |-> args.external_id,
       name |-> profileName,
       created_at |-> now,
       updated_at |-> now,
       version |-> 1,
       language |-> IF args.language = NoArg THEN "en" ELSE args.language,
       facets |-> NoFacets,
       demographics |-> [name |-> profileName]]

\* the documents a handler saves: the caller's, or the rendered ones

\* rendering in the language of the request instead of the stored one
SoulMdForMutantRequestLanguage(args, profile) ==
  IF args.soul_md # None THEN Get(args.soul_md)
  ELSE generateSoulMd(profile.facets, profile.demographics,
                      IF args.language = NoArg THEN "en" ELSE args.language)

SoulMdFor(args, profile) ==
  IF args.soul_md # None THEN Get(args.soul_md)
  ELSE generateSoulMd(profile.facets, profile.demographics, profile.language)
IdentityMdFor(args, profile) ==
  IF args.identity_md # None THEN Get(args.identity_md)
  ELSE generateIdentityMd(profile.facets, profile.demographics, profile.language)

\* update_profile: the merge it runs on the loaded facets
UpdateMerge(profile, args, now) ==
  IF args.facets # None
  THEN mergeFacets(profile.facets, Get(args.facets), "text_analysis", now)
  ELSE [merged |-> profile.facets, changes |-> <<>>, driftWarnings |-> <<>>]

\* update_profile: the loaded profile after the merge, the demographics
\* update, the new timestamp and the version increment
UpdatedProfileMutantKeepVersion(profile, args, now) ==
  [profile EXCEPT
     !.facets = UpdateMerge(profile, args, now).merged,
     !.demographics = IF args.demographics # None
                      THEN Get(args.demographics) @@ @ ELSE @,
     !.updated_at = now,
     !.version = IF UpdateMerge(profile, args, now).changes = <<>> THEN @ ELSE @ + 1]


\* an update that replaces the demographics by the fields of the request
UpdatedProfileMutantReplaceDemographics(profile, args, now) ==
  [profile EXCEPT
     !.facets = UpdateMerge(profile, args, now).merged,
     !.demographics = IF args.demographics # None
                      THEN Get(args.demographics) ELSE @,
     !.updated_at = now,
     !.version = @ + 1]

UpdatedProfile(profile, args, now) ==
  [profile EXCEPT
     !.facets = UpdateMerge(profile, args, now).merged,
     !.demographics = IF args.demographics # None
                      THEN Get(args.demographics) @@ @ ELSE @,
     !.updated_at = now,
     !.version = @ + 1]

\* the state of a handler that has built the profile and calls store.save
Saving(c, profile, expectedVersion) ==
  [c EXCEPT !.pc = "mkdir",
            !.profile = Some(profile),
            !.expectedVersion = expectedVersion,
            !.soulMd = Some(SoulMdFor(c.args, profile)),
            !.identityMd = Some(IdentityMdFor(c.args, profile)),
            !.pending = Files]

\* what the handler returns once save has returned
SavedResult(c) ==
  LET profile == Get(c.profile)
  IN  IF c.tool = "update_profile"
      THEN OkResult([profile_id |-> profile.id, changes |-> c.changes,
                     drift_warnings |-> [i \in 1..Len(c.driftWarnings) |->
                                           c.driftWarnings[i].message],
                     soul_md |-> Get(c.soulMd), identity_md |-> Get(c.identityMd)])
      ELSE IF c.tool = "create_profile"
      THEN OkResult([profile_id |-> profile.id, external_id |-> profile.external_id,
                     facets |-> profile.facets,
                     soul_md |-> Get(c.soulMd), identity_md |-> Get(c.identityMd)])
      ELSE OkResult([profile |-> profile, created |-> TRUE,
                     soul_md |-> Get(c.soulMd), identity_md |-> Get(c.identityMd)])

\* The input schema the server checks a request against before it runs the
\* handler.  create_profile and the update_profile of tools/update-profile.ts
\* declare confidence as z.number().min(0).max(1); the other update_profile
\* uses facetInputSchema, whose confidenceSchema clamps.
InRange(c) == c >= 0 /\ c <= One

SchemaAccepts(tool, variant, args) ==
  IF tool = "create_profile" \/ (tool = "update_profile" /\ variant = "unchecked")
  THEN \/ args.facets = None
       \/ \A i \in 1..Len(Get(args.facets)) : InRange(Get(args.facets)[i].confidence)
  ELSE TRUE

\* the arguments the handler receives: the output of the schema
ParsedArgs(tool, variant, args) ==
  IF tool = "update_profile" /\ variant = "checked" /\ args.facets # None
  THEN [args EXCEPT !.facets =
          Some([i \in 1..Len(Get(args.facets)) |->
                  [Get(args.facets)[i] EXCEPT !.confidence = confidenceSchema(@)]])]
  ELSE args

\* loadByExternalId: what the scan can return

\* a scan that never finds the profile
loadByExternalIdMutantNeverFinds(d, externalId) == {None}

loadByExternalId(d, externalId) ==
  IF MatchesExternalId(d, externalId) = {} THEN {None}
  ELSE {load(d, id) : id \in MatchesExternalId(d, externalId)}

SetCall(k, c) == calls' = [calls EXCEPT ![k] = c]

\* the results for a request without identifier and for an absent profile
MissingIdResult ==
  ErrorResult("Either profile_id or external_id must be provided.", NoArg)

NotFoundResultMutantThrown == ThrownFault("Profile not found.")

NotFoundResult == ErrorResult("Profile not found.", NoArg)

\* args.profile_id ? store.load(args.profile_id)
\*                 : store.loadByExternalId(args.external_id):
\* what the expression can give; thrown when profileDir rejects the identifier
Lookup(d, args) ==
  IF args.profile_id # NoArg
  THEN IF profileDir(args.profile_id) = None
       THEN {[thrown |-> TRUE, found |-> None]}
       ELSE {[thrown |-> FALSE, found |-> load(d, Get(profileDir(args.profile_id)))]}
  ELSE {[thrown |-> FALSE, found |-> r] : r \in loadByExternalId(d, args.external_id)}

\* update_profile, from the request to the call of store.save.  The variant
\* "checked" passes the loaded version to save, "unchecked" passes none.
UpdateLoad(k) ==
  /\ k \in 1..Len(calls)
  /\ calls[k].tool = "update_profile"
  /\ calls[k].pc = "start"
  /\ LET c == calls[k]
         a == ParsedArgs(c.tool, c.variant, c.args)
     IN  IF a.profile_id = NoArg /\ a.external_id = NoArg
         THEN SetCall(k, Finish(c, MissingIdResult))
         ELSE \E o \in Lookup(disk, a) :
                IF o.thrown
                THEN SetCall(k, Finish(c, ThrownFault("Invalid profile ID")))
                ELSE IF o.found = None
                THEN SetCall(k, Finish(c, NotFoundResult))
                ELSE LET loaded == Get(o.found).profile
                         m == UpdateMerge(loaded, a, clock)
                         expected == IF c.variant = "checked"
                                     THEN Some(loaded.version) ELSE None
                     IN  SetCall(k, [Saving(c, UpdatedProfile(loaded, a, clock), expected)
                                       EXCEPT !.loadedVersion = Some(loaded.version),
                                              !.now = clock,
                                              !.changes = m.changes,
                                              !.driftWarnings = m.driftWarnings])
  /\ UNCHANGED <<clock, disk, usedIds, mergeVars, driftVars, renderVars>>

\* create_profile, from the request to the call of store.save
CreateLookup(k) ==
  /\ k \in 1..Len(calls)
  /\ calls[k].tool = "create_profile"
  /\ calls[k].pc = "start"
  /\ LET c == calls[k]
         a == c.args
     IN  IF a.external_id # NoArg /\ MatchesExternalId(disk, a.external_id) # {}
         THEN /\ SetCall(k, Finish(c, ErrorResult(
                   "A profile with this external_id already exists.", NoArg)))
              /\ usedIds' = usedIds
         ELSE \E id \in ProfileIds \ usedIds :
                /\ SetCall(k, [Saving(c, CreatedProfile(a, id, clock), None)
                                 EXCEPT !.now = clock])
                /\ usedIds' = usedIds \cup {id}
  /\ UNCHANGED <<clock, disk, mergeVars, driftVars, renderVars>>

\* get_or_create_profile, from the request to its return or the call of
\* store.save
GetOrCreateLookup(k) ==
  /\ k \in 1..Len(calls)
  /\ calls[k].tool = "get_or_create_profile"
  /\ calls[k].pc = "start"
  /\ LET c == calls[k]
         a == c.args
     IN  \E found \in loadByExternalId(disk, a.external_id) :
           IF found # None
           THEN /\ SetCall(k, Finish(c, OkResult(
                     [profile |-> Get(found).profile, created |-> FALSE,
                      soul_md |-> Get(found).soulMd,
                      identity_md |-> Get(found).identityMd])))
                /\ usedIds' = usedIds
           ELSE \E id \in ProfileIds \ usedIds :
                  /\ SetCall(k, [Saving(c, GetOrCreatedProfile(a, id, clock), None)
                                   EXCEPT !.now = clock])
                  /\ usedIds' = usedIds \cup {id}
  /\ UNCHANGED <<clock, disk, mergeVars, driftVars, renderVars>>

\* get_profile: the whole handler
GetProfile(k) ==
  /\ k \in 1..Len(calls)
  /\ calls[k].tool = "get_profile"
  /\ calls[k].pc = "start"
  /\ LET c == calls[k]
         a == c.args
     IN  IF a.profile_id = NoArg /\ a.external_id = NoArg
         THEN SetCall(k, Finish(c, MissingIdResult))
         ELSE \E o \in Lookup(disk, a) :
                IF o.thrown
                THEN SetCall(k, Finish(c, ThrownFault("Invalid profile ID")))
                ELSE IF o.found = None
                THEN SetCall(k, Finish(c, NotFoundResult))
                ELSE SetCall(k, Finish(c, OkResult(
                       [profile |-> Get(o.found).profile,
                        soul_md |-> Get(o.found).soulMd,
                        identity_md |-> Get(o.found).identityMd])))
  /\ UNCHANGED <<clock, disk, usedIds, mergeVars, driftVars, renderVars>>

\* delete_profile, from the request to the call of store.delete; dir holds
\* the identifier that store.delete is called with
DeleteLookup(k) ==
  /\ k \in 1..Len(calls)
  /\ calls[k].tool = "delete_profile"
  /\ calls[k].pc = "start"
  /\ LET c == calls[k]
         a == c.args
     IN  IF a.profile_id = NoArg /\ a.external_id = NoArg
         THEN SetCall(k, Finish(c, MissingIdResult))
         ELSE IF a.profile_id # NoArg
         THEN IF profileDir(a.profile_id) = None
              THEN SetCall(k, Finish(c, ThrownFault("Invalid profile ID")))
              ELSE SetCall(k, [c EXCEPT !.pc = "stat", !.dir = Some(a.profile_id)])
         ELSE \E r \in loadByExternalId(disk, a.external_id) :
                IF r = None
                THEN SetCall(k, Finish(c, OkResult([deleted |-> FALSE])))
                ELSE SetCall(k, [c EXCEPT !.pc = "stat",
                                          !.dir = Some(Get(r).profile.id)])
  /\ UNCHANGED <<clock, disk, usedIds, mergeVars, driftVars, renderVars>>

\* store.delete: await stat(dir)
DeleteStat(k) ==
  /\ k \in 1..Len(calls)
  /\ calls[k].pc = "stat"
  /\ IF disk[Get(profileDir(Get(calls[k].dir)))].dir
     THEN SetCall(k, [calls[k] EXCEPT !.pc = "rm"])
     ELSE SetCall(k, Finish(calls[k], OkResult([deleted |-> FALSE])))
  /\ UNCHANGED <<clock, disk, usedIds, mergeVars, driftVars, renderVars>>

\* store.delete: await rm(dir, { recursive: true })
DeleteRm(k) ==
  /\ k \in 1..Len(calls)
  /\ calls[k].pc = "rm"
  /\ LET dir == Get(profileDir(Get(calls[k].dir)))
     IN  IF disk[dir].dir
         THEN /\ disk' = rm(disk, dir)
              /\ SetCall(k, Finish(calls[k], OkResult([deleted |-> TRUE])))
         ELSE /\ disk' = disk
              /\ SetCall(k, Finish(calls[k], OkResult([deleted |-> FALSE])))
  /\ UNCHANGED <<clock, usedIds, mergeVars, driftVars, renderVars>>

\* store.save: await ensureDir(dir)
SaveMkdir(k) ==
  /\ k \in 1..Len(calls)
  /\ calls[k].pc = "mkdir"
  /\ disk' = ensureDir(disk, Get(calls[k].profile).id)
  /\ SetCall(k, [calls[k] EXCEPT !.pc = IF calls[k].expectedVersion # None
                                         THEN "check" ELSE "write"])
  /\ UNCHANGED <<clock, usedIds, mergeVars, driftVars, renderVars>>

\* store.save: the read of profile.json for the optimistic lock; on a
\* mismatch save throws VersionConflictError, which update_profile returns
\* as a VERSION_CONFLICT error result
SaveCheck(k) ==
  /\ k \in 1..Len(calls)
  /\ calls[k].pc = "check"
  /\ IF VersionConflict(disk, Get(calls[k].profile).id, calls[k].expectedVersion)
     THEN SetCall(k, Finish(calls[k], ErrorResult("Version conflict", "VERSION_CONFLICT")))
     ELSE SetCall(k, [calls[k] EXCEPT !.pc = "write"])
  /\ UNCHANGED <<clock, disk, usedIds, mergeVars, driftVars, renderVars>>

\* store.save: one of the three writeFile calls of Promise.all completes; the
\* handler returns after the last one
SaveWrite(k) ==
  /\ k \in 1..Len(calls)
  /\ calls[k].pc = "write"
  /\ \E f \in calls[k].pending :
       LET c == calls[k]
           content == IF f = "profile.json" THEN Get(c.profile)
                      ELSE IF f = "SOUL.md" THEN Get(c.soulMd)
                      ELSE Get(c.identityMd)
           after == [c EXCEPT !.pending = @ \ {f}, !.wrote = @ \cup {f}]
       IN  IF disk[Get(c.profile).id].dir
           THEN /\ disk' = writeFile(disk, Get(c.profile).id, f, content)
                /\ SetCall(k, IF after.pending = {}
                              THEN Finish(after, SavedResult(after))
                              ELSE after)
           ELSE \* the directory was removed: writeFile rejects with ENOENT
                \* and so does save
                /\ disk' = disk
                /\ SetCall(k, Finish([c EXCEPT !.pending = {}],
                                     ThrownFault("ENOENT")))
  /\ UNCHANGED <<clock, usedIds, mergeVars, driftVars, renderVars>>

\* time passes
Tick ==
  /\ clock < MaxClock
  /\ clock' = clock + 1
  /\ UNCHANGED <<disk, calls, usedIds, mergeVars, driftVars, renderVars>>

\* ------------------------------------------------------------------------
\* Requests
\* ------------------------------------------------------------------------
UpdateArgs ==
  { Args("id1", NoArg, NoArg, Some(<<Obs("facet_1", "a", LowConf)>>), None, None, None, NoArg),
    Args("id1", NoArg, NoArg, Some(<<Obs("facet_2", "b", One)>>), None, None, None, NoArg),
    Args(NoArg, "ext1", NoArg, None, Some([vibe |-> "calm"]), None, None, NoArg),
    Args(NoArg, NoArg, NoArg, Some(<<Obs("facet_1", "b", HalfConf)>>), None, None, None, NoArg),
    Args("id1", NoArg, NoArg, Some(<<Obs("facet_2", "a", One + One \div 2)>>), None, None, None, NoArg) }

CreateArgs ==
  { Args(NoArg, "ext1", "Ann", Some(<<Obs("facet_1", "a", HalfConf)>>), None, None, None, NoArg),
    Args(NoArg, NoArg, "Bob", None, Some([vibe |-> "keen"]), None, None, "ja"),
    Args(NoArg, NoArg, "Cy", Some(<<Obs("facet_1", "b", -(One \div 4))>>), None, None, None, NoArg) }

GetOrCreateArgs ==
  { Args(NoArg, "ext1", NoArg, None, None, None, None, NoArg) }

GetArgs ==
  { Args("id1", NoArg, NoArg, None, None, None, None, NoArg),
    Args("id2", NoArg, NoArg, None, None, None, None, NoArg),
    Args(NoArg, NoArg, NoArg, None, None, None, None, NoArg) }

DeleteArgs ==
  { Args("id1", NoArg, NoArg, None, None, None, None, NoArg),
    Args(NoArg, "ext1", NoArg, None, None, None, None, NoArg),
    Args(NoArg, NoArg, NoArg, None, None, None, None, NoArg),
    Args(".", NoArg, NoArg, None, None, None, None, NoArg),
    Args("../id1", NoArg, NoArg, None, None, None, None, NoArg) }

Requests ==
  [tool : {"update_profile"}, variant : {"checked", "unchecked"}, args : UpdateArgs]
  \cup [tool : {"create_profile"}, variant : {"-"}, args : CreateArgs]
  \cup [tool : {"get_or_create_profile"}, variant : {"-"}, args : GetOrCreateArgs]
  \cup [tool : {"get_profile"}, variant : {"-"}, args : GetArgs]
  \cup [tool : {"delete_profile"}, variant : {"-"}, args : DeleteArgs]

\* the requests that can be in flight together
ConcurrentRequests == {"r1", "r2"}

Begin(r) ==
  /\ calls' = Append(calls,
       IF SchemaAccepts(r.tool, r.variant, r.args)
       THEN NewCall(r.tool, r.variant, r.args)
       ELSE Finish(NewCall(r.tool, r.variant, r.args),
                   ErrorResult("Invalid arguments", "InvalidParams")))
  /\ UNCHANGED <<clock, disk, usedIds, mergeVars, driftVars, renderVars>>

\* a request arrives while others may be in flight
Receive ==
  /\ Len(calls) < Cardinality(ConcurrentRequests)
  /\ \E r \in Requests : Begin(r)

\* a request arrives after the previous one has been answered
ReceiveInTurn ==
  /\ Len(calls) < MaxSeqCalls
  /\ \A k \in 1..Len(calls) : calls[k].pc = "done"
  /\ \E r \in Requests : Begin(r)

\* ------------------------------------------------------------------------
\* StoreSpec: requests handled concurrently; SeqSpec: one after the other
\* ------------------------------------------------------------------------
\* the store as a previous run of the server left it: empty, or holding the
\* profile that create_profile stored for the first of CreateArgs
StoredProfile ==
  CreatedProfile(
    Args(NoArg, "ext1", "Ann", Some(<<Obs("facet_1", "a", HalfConf)>>), None, None, None, NoArg),
    "id1", 0)

StoredDisk ==
  [EmptyDisk EXCEPT
     ![Root].dir = TRUE,
     !["id1"] = [dir |-> TRUE,
                 files |-> [f \in Files |->
                   IF f = "profile.json" THEN Some(StoredProfile)
                   ELSE IF f = "SOUL.md"
                   THEN Some(generateSoulMd(StoredProfile.facets,
                               StoredProfile.demographics, StoredProfile.language))
                   ELSE Some(generateIdentityMd(StoredProfile.facets,
                               StoredProfile.demographics, StoredProfile.language))]]]

StoreInit ==
  /\ clock = 0
  /\ existing = NoFacets
  /\ incoming = <<>>
  /\ source = "text_analysis"
  /\ result = mergeFacets(existing, incoming, source, clock)
  /\ disk \in {EmptyDisk, StoredDisk}
  /\ calls = <<>>
  /\ usedIds = {id \in ProfileIds : disk[id].dir}
  /\ driftChanges = <<>>
  /\ driftResult = None
  /\ renderFacets = <<>>
  /\ renderTable = None

Step ==
  \E k \in 1..Len(calls) :
    \/ UpdateLoad(k)
    \/ CreateLookup(k)
    \/ GetOrCreateLookup(k)
    \/ GetProfile(k)
    \/ DeleteLookup(k)
    \/ DeleteStat(k)
    \/ DeleteRm(k)
    \/ SaveMkdir(k)
    \/ SaveCheck(k)
    \/ SaveWrite(k)

StoreNext == Receive \/ Step \/ Tick
StoreSpec == StoreInit /\ [][StoreNext]_vars

SeqNext == ReceiveInTurn \/ Step \/ Tick
SeqSpec == StoreInit /\ [][SeqNext]_vars

\* ------------------------------------------------------------------------
\* Properties of the handlers and the store
\* ------------------------------------------------------------------------
AllDone == \A k \in 1..Len(calls) : calls[k].pc = "done"

Succeeded(k) == calls[k].pc = "done" /\ ~Get(calls[k].response).isError

\* the update_profile calls that have loaded a profile
LoadedUpdates ==
  {k \in 1..Len(calls) : /\ calls[k].tool = "update_profile"
                         /\ calls[k].loadedVersion # None}

\* the update_profile calls that passed the loaded version to save
CheckedUpdates == {k \in LoadedUpdates : calls[k].variant = "checked"}

Stored(id) == disk[id].files["profile.json"]

\* C1 (as claimed): of two update_profile calls that loaded the same profile
\* at the same version and hand that version to save, at most one overwrites
\* the stored profile.json, whatever the interleaving of their steps.
C1_AtMostOneOverwrites ==
  \A i, j \in CheckedUpdates :
    (/\ i # j
     /\ Get(calls[i].profile).id = Get(calls[j].profile).id
     /\ calls[i].loadedVersion = calls[j].loadedVersion) =>
      ~("profile.json" \in calls[i].wrote /\ "profile.json" \in calls[j].wrote)

\* the history entry a successful update appended for its ChangeRecord ch
AppendedEntry(k, ch) ==
  LET h == Get(calls[k].profile).facets[ch.facet].history
  IN  h[Len(h)]

\* C2 (as claimed): once all calls have completed, every history entry that a
\* successful update_profile call appended (one per ChangeRecord it returned)
\* is present in that facet's stored history, as long as the profile is stored.
C2_NoLostUpdate ==
  AllDone =>
    \A k \in CheckedUpdates :
      Succeeded(k) =>
        \A n \in 1..Len(calls[k].changes) :
          LET ch == calls[k].changes[n]
              id == Get(calls[k].profile).id
              stored == Get(Stored(id))
          IN  \* a profile that delete_profile removed has no history left
              Stored(id) # None =>
                /\ ch.facet \in DOMAIN stored.facets
                /\ \E m \in 1..Len(stored.facets[ch.facet].history) :
                     stored.facets[ch.facet].history[m] = AppendedEntry(k, ch)

\* C3 (as claimed): an update_profile call writes profile.json only while the
\* stored version still equals the version the call loaded; on any other
\* stored version it returns VERSION_CONFLICT and leaves the files alone.
C3_WritesOnlyOverLoadedVersion ==
  [][\A k \in LoadedUpdates :
       (/\ k \in 1..Len(calls')
        /\ "profile.json" \notin calls[k].wrote
        /\ "profile.json" \in calls'[k].wrote) =>
         /\ Stored(Get(calls[k].profile).id) # None
         /\ Get(Stored(Get(calls[k].profile).id)).version
              = Get(calls[k].loadedVersion)]_vars

\* the successful update_profile calls on profile id
SuccessfulUpdates(id) ==
  {k \in LoadedUpdates : Succeeded(k) /\ Get(calls[k].profile).id = id}

\* C4: create_profile and get_or_create_profile create a profile with
\* version 1; a successful update_profile stores the profile with the loaded
\* version plus one and updated_at set to the time of the call, with or
\* without ChangeRecords; when requests are handled one after the other the
\* stored version is 1 plus the number of successful updates of the profile.
C4_VersionCountsUpdates ==
  /\ \A k \in 1..Len(calls) :
       (/\ calls[k].tool \in {"create_profile", "get_or_create_profile"}
        /\ calls[k].profile # None) => Get(calls[k].profile).version = 1
  /\ \A k \in LoadedUpdates :
       Succeeded(k) =>
         /\ Get(calls[k].profile).version = Get(calls[k].loadedVersion) + 1
         /\ Get(calls[k].profile).updated_at = calls[k].now
         /\ k = Len(calls) => Stored(Get(calls[k].profile).id) = calls[k].profile
  /\ AllDone =>
       \A id \in ProfileIds :
         Stored(id) # None =>
           Get(Stored(id)).version = 1 + Cardinality(SuccessfulUpdates(id))

C4_Witness ==
  /\ AllDone
  /\ \E k \in LoadedUpdates :
       /\ Succeeded(k)
       /\ calls[k].changes = <<>>
       /\ Get(calls[k].loadedVersion) = 2
       /\ Stored(Get(calls[k].profile).id) = calls[k].profile
       /\ Get(calls[k].profile).version = 3
       /\ Get(calls[k].profile).updated_at > Get(calls[k].profile).created_at

\* the calls whose request carries a facet confidence outside [0, 1]
OutOfRangeCalls ==
  {k \in 1..Len(calls) :
     /\ calls[k].tool \in {"create_profile", "update_profile"}
     /\ calls[k].args.facets # None
     /\ \E i \in 1..Len(Get(calls[k].args.facets)) :
          ~InRange(Get(calls[k].args.facets)[i].confidence)}

\* C13 (as claimed): a create_profile or update_profile request with a facet
\* confidence outside [0, 1] is never rejected as invalid input.
C13_OutOfRangeNeverRejected ==
  \A k \in OutOfRangeCalls :
    calls[k].pc = "done" => Get(calls[k].response).code # "InvalidParams"


\* ------------------------------------------------------------------------
\* Requests without identifier or for an absent profile
\* ------------------------------------------------------------------------
NoIdentifier(a) == a.profile_id = NoArg /\ a.external_id = NoArg

\* the request names a profile, with an identifier the store accepts, and
\* the store holds no such profile
NamesAbsentProfile(d, a) ==
  /\ ~NoIdentifier(a)
  /\ \A o \in Lookup(d, a) : ~o.thrown /\ o.found = None

\* the calls that C19 is about, seen when the handler starts
ContractViolation(c) ==
  /\ c.pc = "start"
  /\ \/ /\ c.tool \in {"update_profile", "get_profile", "delete_profile"}
        /\ NoIdentifier(c.args)
     \/ /\ c.tool \in {"update_profile", "get_profile"}
        /\ NamesAbsentProfile(disk, c.args)

StructuredError(r) ==
  /\ r.isError
  /\ r.error # NoArg
  /\ r.code # "thrown"

\* C19: update_profile, get_profile and delete_profile without profile_id and
\* external_id, and update_profile and get_profile naming a profile that does
\* not exist, answer in one step with a structured error (isError and a
\* message, not a thrown fault), and the step leaves the store as it was.
C19_StructuredErrorStoreUnchanged ==
  [][\A k \in 1..Len(calls) :
       (ContractViolation(calls[k]) /\ calls'[k] # calls[k])
         => /\ calls'[k].pc = "done"
            /\ StructuredError(Get(calls'[k].response))
            /\ disk' = disk]_vars

AnsweredWith(tool, r) ==
  \E k \in 1..Len(calls) :
    /\ calls[k].tool = tool
    /\ calls[k].pc = "done"
    /\ calls[k].response = Some(r)

C19_Witness ==
  /\ AnsweredWith("update_profile", NotFoundResult)
  /\ AnsweredWith("get_profile", NotFoundResult)
  /\ AnsweredWith("delete_profile", MissingIdResult)

\* ------------------------------------------------------------------------
\* Storage namespace
\* ------------------------------------------------------------------------
\* C20: store.delete(id) that is not rejected removes at most the profile
\* whose identifier is id: the record of every other profile is as it was,
\* so every other stored profile can still be loaded.
C20_DeleteTouchesOnlyNamedProfile ==
  [][\A k \in 1..Len(calls) :
       (calls[k].pc = "rm" /\ calls'[k].pc = "done")
         => \A id \in ProfileIds :
              id # Get(calls[k].dir) => disk'[id] = disk[id]]_vars

\* ------------------------------------------------------------------------
\* The stored documents
\* ------------------------------------------------------------------------
Rendered(profile) ==
  [soulMd |-> generateSoulMd(profile.facets, profile.demographics, profile.language),
   identityMd |-> generateIdentityMd(profile.facets, profile.demographics,
                                     profile.language)]

\* C23: an update_profile call without soul_md / identity_md hands to save
\* the rendering of the profile it saves (merged facets, updated
\* demographics, stored language); and when requests are handled one after
\* the other and no caller supplies documents, the stored SOUL.md and
\* IDENTITY.md are the rendering of the stored profile.json.
C23_DocumentsAreRendering ==
  /\ \A k \in LoadedUpdates :
       /\ calls[k].args.soul_md = None =>
            calls[k].soulMd = Some(Rendered(Get(calls[k].profile)).soulMd)
       /\ calls[k].args.identity_md = None =>
            calls[k].identityMd = Some(Rendered(Get(calls[k].profile)).identityMd)
  /\ AllDone =>
       \A id \in ProfileIds :
         Stored(id) # None =>
           /\ disk[id].files["SOUL.md"] = Some(Rendered(Get(Stored(id))).soulMd)
           /\ disk[id].files["IDENTITY.md"]
                = Some(Rendered(Get(Stored(id))).identityMd)

\* a completed update that changed a facet of a profile stored in Japanese
C23_Witness ==
  /\ AllDone
  /\ \E k \in LoadedUpdates :
       /\ Succeeded(k)
       /\ calls[k].changes # <<>>
       /\ Get(calls[k].profile).language = "ja"
       /\ Stored(Get(calls[k].profile).id) = calls[k].profile
       /\ disk[Get(calls[k].profile).id].files["SOUL.md"] = calls[k].soulMd

\* ------------------------------------------------------------------------
\* get_or_create_profile, requests handled one after the other
\* ------------------------------------------------------------------------
\* the get_or_create_profile calls that have been answered
AnsweredGetOrCreate ==
  {k \in 1..Len(calls) : /\ calls[k].tool = "get_or_create_profile"
                         /\ calls[k].pc = "done"
                         /\ ~Get(calls[k].response).isError}

Body(k) == Get(Get(calls[k].response).body)

\* a delete_profile call between calls i and j removed something
DeletedBetween(i, j) ==
  \E k \in (i + 1)..(j - 1) :
    /\ calls[k].tool = "delete_profile"
    /\ ~Get(calls[k].response).isError
    /\ Body(k).deleted

C24_Created ==
  \A i \in AnsweredGetOrCreate :
    Body(i).created =>
      /\ Body(i).profile.version = 1
      /\ Body(i).profile.facets = NoFacets
      /\ Body(i).profile.external_id = calls[i].args.external_id
      /\ calls[i].wrote = Files

C24_Later ==
  \A i, j \in AnsweredGetOrCreate :
    (/\ i < j
     /\ calls[i].args.external_id = calls[j].args.external_id
     /\ ~DeletedBetween(i, j)) =>
       /\ Body(j).profile.id = Body(i).profile.id
       /\ ~Body(j).created
       /\ calls[j].wrote = {}

\* the step of a call that finds a stored profile, or finds none
C24_Step ==
  \A k \in 1..Len(calls) :
    (/\ calls[k].tool = "get_or_create_profile"
     /\ calls[k].pc = "start"
     /\ calls'[k] # calls[k]) =>
       IF MatchesExternalId(disk, calls[k].args.external_id) = {}
       THEN calls'[k].pc = "mkdir" /\ Get(calls'[k].profile).version = 1
       ELSE /\ calls'[k].pc = "done"
            /\ ~Get(Get(calls'[k].response).body).created
            /\ disk' = disk

\* C24: with requests handled one after the other, get_or_create_profile for
\* an external_id without stored profile creates one (version 1, no facets,
\* created: true); every later call with that external_id, as long as the
\* profile has not been deleted, returns the same profile id with
\* created: false and writes nothing.
C24_GetOrCreateIdempotent ==
  /\ [](C24_Created /\ C24_Later)
  /\ [][C24_Step]_vars

\* created, updated, and found again with the update in it
C24_Witness ==
  /\ Len(calls) = 3
  /\ {1, 3} \subseteq AnsweredGetOrCreate
  /\ Body(1).created
  /\ calls[2].tool = "update_profile" /\ Succeeded(2)
  /\ ~Body(3).created
  /\ Body(3).profile.id = Body(1).profile.id
  /\ Body(3).profile.version = 2

\* ------------------------------------------------------------------------
\* What update_profile leaves alone
\* ------------------------------------------------------------------------
NamedFacets(a) ==
  IF a.facets = None THEN {}
  ELSE {Get(a.facets)[i].facet : i \in 1..Len(Get(a.facets))}

NamedFields(a) ==
  IF a.demographics = None THEN {} ELSE DOMAIN Get(a.demographics)

\* profile p as update_profile with arguments a may have made it out of q
Framed(q, p, a) ==
  /\ p.id = q.id
  /\ p.external_id = q.external_id
  /\ p.name = q.name
  /\ p.language = q.language
  /\ p.created_at = q.created_at
  /\ DOMAIN p.demographics = DOMAIN q.demographics \cup NamedFields(a)
  /\ \A f \in DOMAIN q.demographics \ NamedFields(a) :
       p.demographics[f] = q.demographics[f]
  /\ DOMAIN p.facets = DOMAIN q.facets \cup NamedFacets(a)
  /\ \A t \in DOMAIN q.facets \ NamedFacets(a) : p.facets[t] = q.facets[t]

\* C25: the profile that update_profile saves agrees with the profile it
\* loaded in id, external_id, name, language and created_at, in every
\* demographics field the request does not name and in every facet the
\* request does not name.
C25_UpdateFrame ==
  [][\A k \in 1..Len(calls) :
       (/\ calls[k].tool = "update_profile"
        /\ calls[k].pc = "start"
        /\ calls'[k].pc = "mkdir") =>
         \E o \in Lookup(disk, calls[k].args) :
           /\ o.found # None
           /\ Framed(Get(o.found).profile, Get(calls'[k].profile), calls[k].args)]_vars

\* a completed update of the demographics of a profile with a facet, and one
\* of a facet of a profile that has another facet
C25_Witness ==
  \E k \in LoadedUpdates :
    /\ Succeeded(k)
    /\ Stored(Get(calls[k].profile).id) = calls[k].profile
    /\ Get(calls[k].profile).demographics = [name |-> "Ann", vibe |-> "calm"]
    /\ "facet_1" \in DOMAIN Get(calls[k].profile).facets
    /\ \E j \in LoadedUpdates :
         /\ Succeeded(j)
         /\ NamedFacets(calls[j].args) = {"facet_2"}

\* ------------------------------------------------------------------------
\* external_id
\* ------------------------------------------------------------------------
StoredExternalId(id) == Get(Stored(id)).external_id

\* C26 (as claimed): whatever the interleaving of create_profile and
\* get_or_create_profile calls, no two stored profiles have the same
\* external_id.
C26_ExternalIdUnique ==
  \A id1, id2 \in ProfileIds :
    (/\ id1 # id2
     /\ Stored(id1) # None
     /\ Stored(id2) # None
     /\ StoredExternalId(id1) # NoArg) =>
       StoredExternalId(id1) # StoredExternalId(id2)

\* ------------------------------------------------------------------------
\* History of the stored facets
\* ------------------------------------------------------------------------
LastEntry(facet) == facet.history[Len(facet.history)]

\* C28: in every reachable state, each facet of each stored profile has a
\* non-empty history whose last entry carries the facet's current value and
\* confidence.
C28_LastHistoryEntryIsCurrent ==
  \A id \in ProfileIds :
    Stored(id) # None =>
      \A t \in DOMAIN Get(Stored(id)).facets :
        LET facet == Get(Stored(id)).facets[t]
        IN  /\ facet.history # <<>>
            /\ LastEntry(facet).value = facet.value
            /\ LastEntry(facet).confidence = facet.confidence

\* a stored profile with a facet from create_profile and a facet that one
\* update added and another changed
C28_Witness ==
  \E id \in ProfileIds :
    /\ Stored(id) # None
    /\ \E t, u \in DOMAIN Get(Stored(id)).facets :
         /\ Len(Get(Stored(id)).facets[t].history) = 2
         /\ Get(Stored(id)).facets[t].value
              # Get(Stored(id)).facets[t].history[1].value
         /\ Len(Get(Stored(id)).facets[u].history) = 1
         /\ Get(Stored(id)).facets[u].history[1].source = "initial_creation"

\* ------------------------------------------------------------------------
\* Deleted profiles
\* ------------------------------------------------------------------------
\* the profiles for which a delete_profile call has returned deleted: true
\* (profile ids are fresh for every create, so none is created again)
DeletedProfiles ==
  {id \in ProfileIds :
     \E k \in 1..Len(calls) :
       /\ calls[k].tool = "delete_profile"
       /\ calls[k].pc = "done"
       /\ ~Get(calls[k].response).isError
       /\ Get(Get(calls[k].response).body).deleted
       /\ calls[k].dir = Some(id)}

\* C30 (as claimed): once delete has returned true for a profile id, load(id)
\* returns absent in every later state, also when an update_profile that
\* loaded the profile before the delete saves after it with the loaded
\* version as expectedVersion.
C30_DeletedStaysDeleted ==
  (\A k \in LoadedUpdates : calls[k].expectedVersion = calls[k].loadedVersion) =>
    \A id \in DeletedProfiles : load(disk, id) = None

====
